---- MODULE Spec2Model ----
(***************************************************************************)
(* Model of the appliance switchboard firmware                             *)
(* (src/appliances_control_hardware/src/main.cpp): nine GPIO channels      *)
(* driven by JSON commands received over MQTT, with a retained state       *)
(* snapshot published after boot, after each command and after each        *)
(* (re)connection.                                                         *)
(*                                                                         *)
(* C strings are sequences of one-character strings, so that strcasecmp    *)
(* is computed character by character.  A const char* is a record          *)
(* [null, s].                                                              *)
(***************************************************************************)
EXTENDS Integers, Sequences, FiniteSets, TLC

\* ------------------------------------------------------------------ bounds
\* Largest number of key/value pairs in one inbound JSON object.
MaxPairs == 2
\* Largest number of consecutive failed connection attempts explored.
MaxAttempts == 2

\* --------------------------------------------------------------- constants
\* delay(5000) after a failed connection attempt.
RetryDelayMs == 5000
\* char payload[256] in publish_state.
PayloadBufSize == 256

LOW == "LOW"
HIGH == "HIGH"
Levels == {LOW, HIGH}

\* pinMap[]: channel name and board pin, in table order.
pinMap ==
  << [name |-> <<"d", "0">>, pin |-> "D0"],
     [name |-> <<"d", "1">>, pin |-> "D1"],
     [name |-> <<"d", "2">>, pin |-> "D2"],
     [name |-> <<"d", "3">>, pin |-> "D3"],
     [name |-> <<"d", "4">>, pin |-> "D4"],
     [name |-> <<"d", "5">>, pin |-> "D5"],
     [name |-> <<"d", "6">>, pin |-> "D6"],
     [name |-> <<"d", "7">>, pin |-> "D7"],
     [name |-> <<"d", "8">>, pin |-> "D8"] >>

\* sizeof(pinMap) / sizeof(pinMap[0])
pinCount == Len(pinMap)

Pins == {pinMap[i].pin : i \in 1..pinCount}

\* ------------------------------------------------------------ C strings
UpperCase ==
  << "A", "B", "C", "D", "E", "F", "G", "H", "I", "J", "K", "L", "M",
     "N", "O", "P", "Q", "R", "S", "T", "U", "V", "W", "X", "Y", "Z" >>
LowerCase ==
  << "a", "b", "c", "d", "e", "f", "g", "h", "i", "j", "k", "l", "m",
     "n", "o", "p", "q", "r", "s", "t", "u", "v", "w", "x", "y", "z" >>

\* The lower-case letter of every upper-case letter.
ToLowerTable == [c \in {UpperCase[i] : i \in DOMAIN UpperCase} |->
                   LowerCase[CHOOSE i \in DOMAIN UpperCase : UpperCase[i] = c]]

\* tolower as strcasecmp applies it to each character.
tolower(c) == IF c \in DOMAIN ToLowerTable THEN ToLowerTable[c] ELSE c

\* Case-sensitive comparison (strcmp): 0 iff the strings are equal.
strcmp(s1, s2) == IF s1 = s2 THEN 0 ELSE 1

\* strcasecmp(s1, s2) on two non-null strings: 0 iff they are equal after
\* folding every character to lower case, nonzero otherwise.
RECURSIVE strcasecmp(_, _)
strcasecmp(s1, s2) ==
  IF s1 = <<>> /\ s2 = <<>> THEN 0
  ELSE IF s1 = <<>> \/ s2 = <<>> THEN 1
  ELSE IF tolower(Head(s1)) # tolower(Head(s2)) THEN 1
  ELSE strcasecmp(Tail(s1), Tail(s2))

on == <<"o", "n">>
off == <<"o", "f", "f">>

\* ------------------------------------------------------------- registry
\* The output levels of the nine pins are the registry's only state.
digitalWrite(gpio, pin, level) == [gpio EXCEPT ![pin] = level]

digitalRead(gpio, pin) == gpio[pin]

\* Mutant of setupPins: the loop stops one channel short.
RECURSIVE setupPinsShort(_, _)
setupPinsShort(gpio, i) ==
  IF i >= pinCount THEN gpio
  ELSE setupPinsShort(digitalWrite(gpio, pinMap[i].pin, LOW), i + 1)

\* setupPins: for i in 0..pinCount-1, pinMode OUTPUT and digitalWrite LOW.
\* (i is 1-based here.)
RECURSIVE setupPins(_, _)
setupPins(gpio, i) ==
  IF i > pinCount THEN gpio
  ELSE setupPins(digitalWrite(gpio, pinMap[i].pin, LOW), i + 1)

\* ------------------------------------------------------- state publisher
\* doc[key] = value on a JSON object: replaces the member with exactly that
\* key, or appends a new member.
DocSet(doc, key, value) ==
  IF \E j \in DOMAIN doc : doc[j].key = key
  THEN [j \in DOMAIN doc |->
          IF doc[j].key = key THEN [key |-> key, value |-> value] ELSE doc[j]]
  ELSE Append(doc, [key |-> key, value |-> value])

\* digitalRead(pin) == HIGH ? "on" : "off"
StateToken(level) == IF level = HIGH THEN on ELSE off

\* Mutant of BuildSnapshot: the loop stops one channel short.
RECURSIVE BuildSnapshotShort(_, _, _)
BuildSnapshotShort(gpio, i, doc) ==
  IF i >= pinCount THEN doc
  ELSE BuildSnapshotShort(gpio, i + 1,
         DocSet(doc, pinMap[i].name, StateToken(digitalRead(gpio, pinMap[i].pin))))

\* The loop of publish_state that fills the document, one member per
\* channel in table order. Each iteration works on the document the one
\* before it left (d is that document, computed once).
RECURSIVE BuildSnapshot(_, _, _)
BuildSnapshot(gpio, i, doc) ==
  IF i > pinCount THEN doc
  ELSE CHOOSE r \in
         { BuildSnapshot(gpio, i + 1, d) :
             d \in { DocSet(doc, pinMap[i].name,
                            StateToken(digitalRead(gpio, pinMap[i].pin))) } } : TRUE

\* Characters taken by the members of a JSON object of string members: per
\* member two quoted strings and a colon, and a comma between members.
RECURSIVE membersLen(_)
membersLen(doc) ==
  IF doc = <<>> THEN 0
  ELSE Len(Head(doc).key) + Len(Head(doc).value) + 5
       + (IF Tail(doc) = <<>> THEN 0 ELSE 1)
       + membersLen(Tail(doc))

\* Number of characters of the JSON text of a document: braces and members.
measureJson(doc) == 2 + membersLen(doc)

\* serializeJson given the size of a pointer instead of the size of the
\* buffer (sizeof applied to a char pointer on the ESP8266).
serializeJsonPtrSize(doc, size) ==
  [members |-> doc,
   length |-> IF measureJson(doc) < 4 THEN measureJson(doc) ELSE 4 - 1,
   complete |-> measureJson(doc) < 4]

\* serializeJson(doc, payload, sizeof(payload)): the text is cut to what the
\* buffer holds (size - 1 characters and the terminator).
serializeJson(doc, size) ==
  [members |-> doc,
   length |-> IF measureJson(doc) < size THEN measureJson(doc) ELSE size - 1,
   complete |-> measureJson(doc) < size]

\* client.publish(topic, payload, retained) of the MQTT client: the packet
\* goes out only while the client is connected; otherwise the call returns
\* false and nothing is sent.
ClientPublish(topic, payload, retained, connected) ==
  [t |-> "pub", topic |-> topic, payload |-> payload,
   retained |-> retained, sent |-> connected]

\* serializeJson(doc, payload, size); client.publish(state_topic, payload,
\* true): the result of serializeJson is not looked at, so whatever the
\* buffer holds is published.
EncodeAndPublish(doc, size, connected) ==
  ClientPublish("state", serializeJson(doc, size), TRUE, connected)

\* publish_state(): the event it produces.
publish_state(gpio, connected) ==
  EncodeAndPublish(BuildSnapshot(gpio, 1, <<>>), PayloadBufSize, connected)

\* ---------------------------------------------------- command processor
\* Values a JSON member can carry, as far as as<const char*>() tells them
\* apart: a string, or anything else (number, boolean, null, array, object).
StringValue(s) == [type |-> "string", str |-> s]
NonString == [type |-> "number", str |-> <<>>]

\* kv.value().as<const char*>(): the string, or a null pointer when the
\* value is not a string.
AsCString(v) ==
  IF v.type = "string" THEN [null |-> FALSE, s |-> v.str]
  ELSE [null |-> TRUE, s |-> <<>>]

\* deserializeJson(doc, payload): an error for bytes that are not JSON,
\* otherwise the document; doc.as<JsonObject>() of a document whose root is
\* not an object is the null object, which has no members.
deserializeJson(payload) ==
  IF ~payload.wellFormed THEN [error |-> TRUE, members |-> <<>>]
  ELSE IF payload.root = "object" THEN [error |-> FALSE, members |-> payload.members]
  ELSE [error |-> FALSE, members |-> <<>>]

\* What strcasecmp(value, "on") can do when value is a null pointer
\* (undefined behaviour): fault, or read whatever lies at address 0 and
\* compare equal or unequal.
UBOutcomes == {"crash", "equal", "differ"}

\* Mutant of WriteOn: "on" inverts the pin instead of driving it HIGH.
WriteOnToggle(gpio, pin) ==
  digitalWrite(gpio, pin, IF digitalRead(gpio, pin) = HIGH THEN LOW ELSE HIGH)

\* digitalWrite(pinMap[i].pin, HIGH)
WriteOn(gpio, pin) == digitalWrite(gpio, pin, HIGH)

\* digitalWrite(pinMap[i].pin, LOW)
WriteOff(gpio, pin) == digitalWrite(gpio, pin, LOW)

\* strcasecmp(value, "on") == 0.  With a null value the comparison is
\* undefined behaviour and ub is its outcome.
ValueIsOn(value, ub) ==
  IF value.null THEN ub = "equal" ELSE strcasecmp(value.s, on) = 0

\* Body of `if (strcasecmp(pinMap[i].name, pinLabel) == 0)` for pair k and
\* channel i: the pin is driven HIGH when value compares equal to "on"
\* ignoring case, LOW otherwise; a faulting comparison ends the handler.
SetChannel(st, k, i, value, ub) ==
  LET pin == pinMap[i].pin
      g == IF ValueIsOn(value, ub) THEN WriteOn(st.gpio, pin) ELSE WriteOff(st.gpio, pin)
  IN IF value.null /\ ub = "crash"
     THEN [st EXCEPT !.crashed = TRUE]
     ELSE [st EXCEPT
             !.gpio = g,
             !.log = Append(st.log,
                       [t |-> "write", pair |-> k, chan |-> i, level |-> g[pin]])]

\* Mutant of KeyMatches: the channel name is compared case-sensitively.
KeyMatchesExact(i, pinLabel) == strcmp(pinMap[i].name, pinLabel) = 0

\* strcasecmp(pinMap[i].name, pinLabel) == 0
KeyMatches(i, pinLabel) == strcasecmp(pinMap[i].name, pinLabel) = 0

\* for (int i = 0; i < pinCount; i++) for one pair kv, the k-th of the
\* document; nothing runs after a fault.
RECURSIVE PinLoop(_, _, _, _, _)
PinLoop(st, kv, k, ub, i) ==
  IF i > pinCount \/ st.crashed THEN st
  ELSE IF KeyMatches(i, kv.key)
       THEN PinLoop(SetChannel(st, k, i, AsCString(kv.value), ub), kv, k, ub, i + 1)
       ELSE PinLoop(st, kv, k, ub, i + 1)

\* The pairs taken from the end of the document to its start: of the pairs
\* for one channel the first in the document is applied last.
RECURSIVE PairLoopBackward(_, _, _, _)
PairLoopBackward(st, members, ubs, k) ==
  IF k > Len(members) \/ st.crashed THEN st
  ELSE PinLoop(PairLoopBackward(st, members, ubs, k + 1), members[k], k, ubs[k], 1)

\* The loop over the pairs left after its first iteration (a break at the
\* end of the loop body): only pair k is applied.
PairLoopFirstOnly(st, members, ubs, k) ==
  IF k > Len(members) \/ st.crashed THEN st
  ELSE PinLoop(st, members[k], k, ubs[k], 1)

\* for (JsonPair kv : doc.as<JsonObject>()), in document order, from pair k.
RECURSIVE PairLoop(_, _, _, _)
PairLoop(st, members, ubs, k) ==
  IF k > Len(members) \/ st.crashed THEN st
  ELSE PairLoop(PinLoop(st, members[k], k, ubs[k], 1), members, ubs, k + 1)

\* Mutant of OnDecodeError: the handler publishes although decoding failed.
OnDecodeErrorPublish(gpio, connected) ==
  [gpio |-> gpio, log |-> <<publish_state(gpio, connected)>>, crashed |-> FALSE]

\* if (error) { ...; return; }
OnDecodeError(gpio, connected) ==
  [gpio |-> gpio, log |-> <<>>, crashed |-> FALSE]

\* callback with publish_state() called before the loop over the pairs: the
\* snapshot shows the registry as it was before the command.
OnDecodedStale(gpio, connected, members, ubs) ==
  LET st == PairLoop([gpio |-> gpio, log |-> <<>>, crashed |-> FALSE], members, ubs, 1)
  IN IF st.crashed THEN st
     ELSE [st EXCEPT !.log = Append(st.log, publish_state(gpio, connected))]

\* The part of callback after a successful decode: every pair is applied,
\* then publish_state() is called once.
OnDecoded(gpio, connected, members, ubs) ==
  LET st == PairLoop([gpio |-> gpio, log |-> <<>>, crashed |-> FALSE], members, ubs, 1)
  IN IF st.crashed THEN st
     ELSE [st EXCEPT !.log = Append(st.log, publish_state(st.gpio, connected))]

\* callback(topic, payload, length): the registry after it, the events it
\* produced in order, and whether it faulted.
callback(gpio, connected, payload, ubs) ==
  LET r == deserializeJson(payload)
  IN IF r.error THEN OnDecodeError(gpio, connected)
     ELSE OnDecoded(gpio, connected, r.members, ubs)

\* ------------------------------------------------------ inbound payloads
Member(key, value) == [key |-> key, value |-> value]

\* The members inbound documents are built from: both channels at the ends
\* of the table in either letter case, the tokens "on", "ON", "oN", "off",
\* "maybe" and "o", a key that names no channel, and a value that is no
\* string.
MemberPool ==
  { Member(<<"d", "0">>, StringValue(<<"o", "n">>)),
    Member(<<"D", "0">>, StringValue(<<"O", "N">>)),
    Member(<<"d", "0">>, StringValue(<<"o", "f", "f">>)),
    Member(<<"D", "8">>, StringValue(<<"o", "N">>)),
    Member(<<"d", "8">>, StringValue(<<"m", "a", "y", "b", "e">>)),
    Member(<<"b", "o", "g", "u", "s">>, StringValue(<<"o", "n">>)),
    Member(<<"d", "8">>, StringValue(<<"o">>)),
    Member(<<"d", "0">>, NonString),
    Member(<<"b", "o", "g", "u", "s">>, NonString) }

SeqsUpTo(S, n) == UNION {[1..k -> S] : k \in 0..n}

\* Bytes that are not JSON: an object cut off after its first member.
Truncated ==
  [wellFormed |-> FALSE, root |-> "object",
   members |-> <<Member(<<"d", "0">>, StringValue(<<"o", "n">>))>>]

\* A JSON text whose root is not an object.
ArrayDoc == [wellFormed |-> TRUE, root |-> "array", members |-> <<>>]

ObjectDoc(members) == [wellFormed |-> TRUE, root |-> "object", members |-> members]

Payloads == {Truncated, ArrayDoc} \cup {ObjectDoc(m) : m \in SeqsUpTo(MemberPool, MaxPairs)}

NoPayload == [wellFormed |-> FALSE, root |-> "none", members |-> <<>>]

\* One outcome per pair for the undefined comparison; only a pair whose
\* value is no string can meet it.
UBChoices(payload) ==
  { ubs \in [DOMAIN payload.members -> UBOutcomes] :
      \A k \in DOMAIN payload.members :
        ~AsCString(payload.members[k].value).null => ubs[k] = "differ" }

\* ---------------------------------------------------------------- state
VARIABLES
  gpio,        \* output level of every pin
  pc,          \* where the firmware is: boot, wifi, loop, connecting, recheck,
               \* service, crashed
  connected,   \* client.connected()
  subscribed,  \* the session holds the control-topic subscription
  attempts,    \* failed connection attempts since the last success
  ev,          \* the step taken last
  msg,         \* the payload handed to callback by the last step, if any
  log,         \* what the last step did, in order: pin writes, publishes, ...
  handled,     \* callback has run since boot
  announced,   \* the session has had its state snapshot sent
  episode      \* since the last link loss and until client.loop() runs again:
               \* the registry at the loss, publish calls and failed attempts since

vars ==
  <<gpio, pc, connected, subscribed, attempts, ev, msg, log, handled, announced, episode>>

AllLevels == [Pins -> Levels]
AllLow == [p \in Pins |-> LOW]
NoEpisode == [active |-> FALSE, gpio |-> AllLow, pubs |-> 0, fails |-> 0]

Pubs(events) == SelectSeq(events, LAMBDA e : e.t = "pub")

\* The episode after a step that produced `events`.
Counted(ep, events) ==
  IF ep.active THEN [ep EXCEPT !.pubs = ep.pubs + Len(Pubs(events))] ELSE ep

\* The episode after a failed connection attempt.
Failed(ep) == IF ep.active THEN [ep EXCEPT !.fails = ep.fails + 1] ELSE ep

\* Power-on: pin levels are whatever the hardware gives before setup().
Init ==
  /\ gpio \in AllLevels
  /\ pc = "boot"
  /\ connected = FALSE
  /\ subscribed = FALSE
  /\ attempts = 0
  /\ ev = "power"
  /\ msg = NoPayload
  /\ log = <<>>
  /\ handled = FALSE
  /\ announced = FALSE
  /\ episode = NoEpisode

\* setup(): Serial.begin, setupPins(), and setup_wifi() starts joining the
\* network.
SetupBegin ==
  /\ pc = "boot"
  /\ gpio' = setupPins(gpio, 1)
  /\ pc' = "wifi"
  /\ ev' = "setup_pins"
  /\ log' = <<>>
  /\ msg' = NoPayload
  /\ UNCHANGED <<connected, subscribed, attempts, handled, announced, episode>>

\* setup_wifi(): while (WiFi.status() != WL_CONNECTED) delay(500);
WifiWait ==
  /\ pc = "wifi"
  /\ ev' = "wifi_wait"
  /\ log' = <<>>
  /\ msg' = NoPayload
  /\ UNCHANGED <<gpio, pc, connected, subscribed, attempts, handled, announced, episode>>

\* setup(), once the network is joined: setServer, setCallback, then
\* publish_state() with no MQTT connection made yet.
SetupFinish ==
  /\ pc = "wifi"
  /\ log' = <<publish_state(gpio, connected)>>
  /\ pc' = "loop"
  /\ ev' = "setup"
  /\ msg' = NoPayload
  /\ episode' = Counted(episode, log')
  /\ UNCHANGED <<gpio, connected, subscribed, attempts, handled, announced>>

\* loop() calling setupPins() before reconnect(): every output is dropped
\* when the link is found down.
EnterReconnectResetsPins ==
  /\ pc = "loop"
  /\ ~connected
  /\ gpio' = setupPins(gpio, 1)
  /\ pc' = "connecting"
  /\ ev' = "enter_reconnect"
  /\ log' = <<>>
  /\ msg' = NoPayload
  /\ UNCHANGED <<connected, subscribed, attempts, handled, announced, episode>>

\* loop(): if (!client.connected()) reconnect();
EnterReconnect ==
  /\ pc = "loop"
  /\ ~connected
  /\ pc' = "connecting"
  /\ ev' = "enter_reconnect"
  /\ log' = <<>>
  /\ msg' = NoPayload
  /\ UNCHANGED <<gpio, connected, subscribed, attempts, handled, announced, episode>>

\* Mutant of ConnectedEvents: subscribe only, as the sibling firmware does.
ConnectedEventsNoPublish(g) == <<[t |-> "sub", topic |-> "control"]>>

\* reconnect() with the two calls the other way round: publish_state()
\* before client.subscribe(control_topic).
ConnectedEventsPublishFirst(g) ==
  <<publish_state(g, TRUE), [t |-> "sub", topic |-> "control"]>>

\* reconnect(), connect succeeded: client.subscribe(control_topic);
\* publish_state();
ConnectedEvents(g) == <<[t |-> "sub", topic |-> "control"], publish_state(g, TRUE)>>

\* reconnect(), connect failed: log, delay(5000).
ConnectFailedEvents(g) == <<[t |-> "delay", ms |-> RetryDelayMs]>>

\* The control topic is subscribed to by one of the calls made.
Subscribes(events) ==
  \E e \in DOMAIN events : events[e].t = "sub" /\ events[e].topic = "control"

\* A state snapshot is sent by one of the calls made.
Announces(events) ==
  \E e \in DOMAIN events : events[e].t = "pub" /\ events[e].sent

\* reconnect(): client.connect(...) returns true; the while condition is
\* evaluated next.
ConnectOK ==
  /\ pc = "connecting"
  /\ ~connected
  /\ connected' = TRUE
  /\ LET events == ConnectedEvents(gpio)
     IN  /\ log' = events
         /\ subscribed' = Subscribes(events)
         /\ announced' = Announces(events)
         /\ episode' = Counted(episode, events)
  /\ attempts' = 0
  /\ pc' = "recheck"
  /\ ev' = "connect_ok"
  /\ msg' = NoPayload
  /\ UNCHANGED <<gpio, handled>>

\* reconnect() with a retry limit of one: after a failed attempt the
\* firmware stops for good.
ConnectFailGiveUp ==
  /\ pc = "connecting"
  /\ ~connected
  /\ attempts < MaxAttempts
  /\ attempts' = attempts + 1
  /\ pc' = "halted"
  /\ log' = <<>>
  /\ ev' = "connect_fail"
  /\ msg' = NoPayload
  /\ episode' = Failed(episode)
  /\ UNCHANGED <<gpio, connected, subscribed, handled, announced>>

\* reconnect() written with if in place of while: after a failed attempt
\* and the delay the function returns, and loop() goes on to client.loop().
ConnectFailReturns ==
  /\ pc = "connecting"
  /\ ~connected
  /\ attempts < MaxAttempts
  /\ attempts' = attempts + 1
  /\ pc' = "service"
  /\ log' = ConnectFailedEvents(gpio)
  /\ ev' = "connect_fail"
  /\ msg' = NoPayload
  /\ episode' = Failed(episode)
  /\ UNCHANGED <<gpio, connected, subscribed, handled, announced>>

\* reconnect(): client.connect(...) returns false; wait and try again.
ConnectFail ==
  /\ pc = "connecting"
  /\ ~connected
  /\ attempts < MaxAttempts
  /\ attempts' = attempts + 1
  /\ log' = ConnectFailedEvents(gpio)
  /\ ev' = "connect_fail"
  /\ msg' = NoPayload
  /\ episode' = Failed(Counted(episode, log'))
  /\ UNCHANGED <<gpio, pc, connected, subscribed, handled, announced>>

\* reconnect(): while (!client.connected()) finds the link already gone
\* again, so another attempt follows.
ReconnectAgain ==
  /\ pc = "recheck"
  /\ ~connected
  /\ pc' = "connecting"
  /\ ev' = "reconnect_again"
  /\ log' = <<>>
  /\ msg' = NoPayload
  /\ UNCHANGED <<gpio, connected, subscribed, attempts, handled, announced, episode>>

\* reconnect(): while (!client.connected()) is false, the function returns.
ReconnectReturn ==
  /\ pc = "recheck"
  /\ connected
  /\ pc' = "service"
  /\ ev' = "reconnect_return"
  /\ log' = <<>>
  /\ msg' = NoPayload
  /\ UNCHANGED <<gpio, connected, subscribed, attempts, handled, announced, episode>>

\* loop(): client.connected() is true, so reconnect() is skipped.
LoopConnected ==
  /\ pc = "loop"
  /\ connected
  /\ pc' = "service"
  /\ ev' = "loop_connected"
  /\ log' = <<>>
  /\ msg' = NoPayload
  /\ UNCHANGED <<gpio, connected, subscribed, attempts, handled, announced, episode>>

\* loop() with client.loop() called whether or not the connection check
\* has been made.
AtClientLoopUnchecked == pc \in {"service", "loop"}

\* The firmware is about to run client.loop(), the last statement of loop().
AtClientLoop == pc = "service"

\* client.loop() with nothing to deliver (or the link already gone, when it
\* returns at once); loop() returns and is called again.
ClientLoopIdle ==
  /\ AtClientLoop
  /\ pc' = "loop"
  /\ ev' = "idle"
  /\ log' = <<>>
  /\ msg' = NoPayload
  /\ episode' = IF connected THEN NoEpisode ELSE episode
  /\ UNCHANGED <<gpio, connected, subscribed, attempts, handled, announced>>

\* client.loop() delivers one message of the control topic to callback.
ClientLoopDeliver(payload, ubs) ==
  /\ AtClientLoop
  /\ connected
  /\ subscribed
  /\ LET r == callback(gpio, connected, payload, ubs)
     IN /\ gpio' = r.gpio
        /\ log' = r.log
        /\ pc' = IF r.crashed THEN "crashed" ELSE "loop"
  /\ ev' = "cmd"
  /\ msg' = payload
  /\ handled' = TRUE
  /\ episode' = NoEpisode
  /\ UNCHANGED <<connected, subscribed, attempts, announced>>

\* The transport loses the link; the session and its subscription are gone.
LinkLost ==
  /\ pc \in {"loop", "recheck", "service"}
  /\ connected
  /\ connected' = FALSE
  /\ subscribed' = FALSE
  /\ announced' = FALSE
  /\ ev' = "link_lost"
  /\ log' = <<>>
  /\ msg' = NoPayload
  /\ episode' = [active |-> TRUE, gpio |-> gpio, pubs |-> 0, fails |-> 0]
  /\ UNCHANGED <<gpio, pc, attempts, handled>>

\* After a fault the chip restarts: power-on state again.
FaultRestart ==
  /\ pc = "crashed"
  /\ gpio' \in AllLevels
  /\ pc' = "boot"
  /\ connected' = FALSE
  /\ subscribed' = FALSE
  /\ attempts' = 0
  /\ ev' = "power"
  /\ msg' = NoPayload
  /\ log' = <<>>
  /\ handled' = FALSE
  /\ announced' = FALSE
  /\ episode' = NoEpisode

\* Any payload may arrive on the control topic.
Deliver ==
  \E payload \in Payloads : \E ubs \in UBChoices(payload) :
    ClientLoopDeliver(payload, ubs)

Next ==
  \/ SetupBegin
  \/ WifiWait
  \/ SetupFinish
  \/ LoopConnected
  \/ EnterReconnect
  \/ ConnectOK
  \/ ConnectFail
  \/ ReconnectAgain
  \/ ReconnectReturn
  \/ ClientLoopIdle
  \/ Deliver
  \/ LinkLost
  \/ FaultRestart

Spec == Init /\ [][Next]_vars

\* The firmware keeps running: loop() is called again and again, client.loop()
\* returns, and the while loop of reconnect() goes on to its next attempt. The
\* broker, tried again and again, accepts an attempt in the end.
LiveSpec ==
  /\ Spec
  /\ WF_vars(EnterReconnect)
  /\ WF_vars(ReconnectAgain)
  /\ WF_vars(ClientLoopIdle)
  /\ SF_vars(ConnectOK)

\* ------------------------------------------------- vocabulary of the claims
\* A string with every letter folded to lower case.
Fold(str) == [j \in DOMAIN str |-> tolower(str[j])]

\* Channel i is the one a key names, letter case aside.
Names(key, i) == Fold(key) = Fold(pinMap[i].name)

\* A value asks for "on": a string that is o, n in either letter case.
AsksOn(value) == value.type = "string" /\ Fold(value.str) = <<"o", "n">>

\* The snapshot a registry state calls for: every channel in table order.
SnapshotOf(g) ==
  [i \in 1..pinCount |->
     [key |-> pinMap[i].name,
      value |-> IF g[pinMap[i].pin] = HIGH THEN <<"o", "n">> ELSE <<"o", "f", "f">>]]

\* The payload decodes to a JSON object.
DecodesToObject(payload) == payload.wellFormed /\ payload.root = "object"

\* A desired-state message: an object whose values are all string tokens.
IsDesiredState(payload) ==
  /\ DecodesToObject(payload)
  /\ \A k \in DOMAIN payload.members : payload.members[k].value.type = "string"

\* ----------------------------------------------------------------- claims

\* C1: after setupPins and until callback first runs, every channel of the
\* registry is LOW, whatever connection attempts, failures, successes and
\* link losses have happened.
C1_FailSafeBoot ==
  (pc # "boot" /\ ~handled) =>
    \A i \in 1..pinCount : digitalRead(gpio, pinMap[i].pin) = LOW

\* C1 witness: no command yet, and the link was lost and made again after a
\* failed attempt.
C1_Witness ==
  /\ ~handled
  /\ ev = "connect_ok"
  /\ episode.active
  /\ episode.fails > 0

\* C2: a step that hands callback a payload that fails to decode changes no
\* channel and calls publish not at all.
C2_DecodeFailureInert ==
  [][(ev' = "cmd" /\ ~msg'.wellFormed) => (gpio' = gpio /\ Pubs(log') = <<>>)]_vars

\* C2 witness: the cut-off object naming d0 was handled while d0 was and
\* stayed LOW and d8 was and stayed HIGH.
C2_Witness ==
  /\ ev = "cmd"
  /\ msg = Truncated
  /\ gpio["D0"] = LOW
  /\ gpio["D8"] = HIGH
  /\ log = <<>>

\* The pairs of a payload whose key names channel i.
PairsNaming(payload, i) ==
  {k \in DOMAIN payload.members : Names(payload.members[k].key, i)}

Last(S) == CHOOSE k \in S : \A j \in S : j <= k

\* C3: after a decoded command, a channel named by one of its pairs is HIGH
\* if and only if the value of the (last) pair naming it is the token "on"
\* in any letter case; any other value, a string or not, leaves it LOW.
C3_FailClosedMapping ==
  (ev = "cmd" /\ DecodesToObject(msg)) =>
    \A i \in 1..pinCount :
      PairsNaming(msg, i) # {} =>
        (gpio[pinMap[i].pin] = HIGH
           <=> AsksOn(msg.members[Last(PairsNaming(msg, i))].value))

\* What C4 asks of one step: in a step handling a decoded command, every pin write is made for a
\* pair whose key names the written channel and channels no key names keep
\* their level; and when some key names no channel, every pair that does
\* name a channel is still applied and the snapshot is still published.
C4_PartialMatchStep ==
  (ev' = "cmd" /\ DecodesToObject(msg')) =>
    /\ \A e \in DOMAIN log' :
         log'[e].t = "write" => Names(msg'.members[log'[e].pair].key, log'[e].chan)
    /\ \A i \in 1..pinCount :
         PairsNaming(msg', i) = {} => gpio'[pinMap[i].pin] = gpio[pinMap[i].pin]
    /\ (\E k \in DOMAIN msg'.members :
          \A i \in 1..pinCount : ~Names(msg'.members[k].key, i)) =>
         /\ \A i \in 1..pinCount : \A k \in PairsNaming(msg', i) :
              \E e \in DOMAIN log' :
                log'[e].t = "write" /\ log'[e].pair = k /\ log'[e].chan = i
         /\ Len(Pubs(log')) = 1

\* C4: every step handling a decoded command changes only the channels its
\* keys name, and a key that names no channel stops neither the other pairs
\* from being applied nor the snapshot from being published.
C4_PartialMatchTolerance == [][C4_PartialMatchStep]_vars

\* C5: every snapshot handed to publish, whatever step produced it, goes to
\* the state topic and holds exactly one member per channel of the table,
\* in table order, with the value "on" or "off" and nothing cut off.
C5_SnapshotComplete ==
  \A e \in DOMAIN log :
    log[e].t = "pub" =>
      /\ log[e].topic = "state"
      /\ log[e].payload.complete
      /\ Len(log[e].payload.members) = pinCount
      /\ \A i \in 1..pinCount :
           /\ log[e].payload.members[i].key = pinMap[i].name
           /\ log[e].payload.members[i].value \in {<<"o", "n">>, <<"o", "f", "f">>}

\* C5 witness: a command with a key that names no channel was handled and
\* its snapshot published with d0 on.
C5_Witness ==
  /\ ev = "cmd"
  /\ \E k \in DOMAIN msg.members : \A i \in 1..pinCount : ~Names(msg.members[k].key, i)
  /\ Len(Pubs(log)) = 1
  /\ gpio["D0"] = HIGH

\* C6: from a link loss until client.loop() runs again, no publish is made
\* while disconnected, exactly one has been made once connected again, and
\* the successful attempt's publish is sent and carries the registry state
\* held at the link loss.
C6_ReconnectAnnounce ==
  /\ (episode.active /\ ~connected) => episode.pubs = 0
  /\ (episode.active /\ connected) => episode.pubs = 1
  /\ (episode.active /\ ev = "connect_ok") =>
       /\ Len(Pubs(log)) = 1
       /\ Pubs(log)[1].sent
       /\ Pubs(log)[1].payload.members = SnapshotOf(episode.gpio)

\* C6 witness: the link was lost with d0 HIGH and made again after at least
\* one failed attempt.
C6_Witness ==
  /\ ev = "connect_ok"
  /\ episode.active
  /\ episode.fails > 0
  /\ episode.gpio["D0"] = HIGH

\* C7: every call of publish_state, at boot, after a command and after a
\* successful connection, puts one retained snapshot on the state topic.
C7_EveryInvocationEmits ==
  \A e \in DOMAIN log :
    log[e].t = "pub" =>
      /\ log[e].sent
      /\ log[e].retained
      /\ log[e].topic = "state"
      /\ log[e].payload.members = SnapshotOf(gpio)

\* C8: a step handling a payload that decodes makes exactly one publish, as
\* its last event, after every pin write of the command.
C8_SinglePublishPerCommand ==
  (ev = "cmd" /\ msg.wellFormed) =>
    /\ Len(Pubs(log)) = 1
    /\ log[Len(log)].t = "pub"
    /\ log[Len(log)].payload.members = SnapshotOf(gpio)

\* No pair of a desired-state message meets the undefined comparison.
NoUB(payload) == [k \in DOMAIN payload.members |-> "differ"]

\* C9: once a desired-state message has been handled, handling the same
\* message again from the state reached leaves the registry as it is and
\* publishes the same snapshot as the first handling did.
C9_Idempotent ==
  (ev = "cmd" /\ IsDesiredState(msg)) =>
    /\ callback(gpio, connected, msg, NoUB(msg)).gpio = gpio
    /\ Pubs(callback(gpio, connected, msg, NoUB(msg)).log) = Pubs(log)

\* C9 witness: a two-pair message that raised d0 has been handled.
C9_Witness ==
  /\ ev = "cmd"
  /\ IsDesiredState(msg)
  /\ Len(msg.members) = 2
  /\ gpio["D0"] = HIGH
  /\ \E e \in DOMAIN log : log[e].t = "write" /\ log[e].chan = 1 /\ log[e].level = HIGH

\* A string with every letter turned to upper case.
Raise(str) ==
  [j \in DOMAIN str |->
     IF \E i \in DOMAIN LowerCase : LowerCase[i] = str[j]
     THEN UpperCase[CHOOSE i \in DOMAIN LowerCase : LowerCase[i] = str[j]]
     ELSE str[j]]

\* A message with every key and every token rewritten by f.
Recased(payload, f(_)) ==
  [payload EXCEPT !.members =
     [k \in DOMAIN payload.members |->
        [key |-> f(payload.members[k].key),
         value |-> StringValue(f(payload.members[k].value.str))]]]

\* What C10 asks of one step: a step handling a desired-state message ends in the registry state,
\* and publishes the snapshot, that handling the same message written all
\* in lower case, or all in upper case, yields from the same prior state;
\* so any two messages differing only in letter case have the same effect.
C10_CaseStep ==
  (ev' = "cmd" /\ IsDesiredState(msg')) =>
    \A m \in {Recased(msg', Fold), Recased(msg', Raise)} :
      /\ callback(gpio, connected, m, NoUB(m)).gpio = gpio'
      /\ Pubs(callback(gpio, connected, m, NoUB(m)).log) = Pubs(log')

\* C10: commands that differ only in the letter case of keys and tokens
\* have the same effect on the registry and publish the same snapshot, from
\* every prior state: every step is as its message recased would make it.
C10_CaseInsensitive == [][C10_CaseStep]_vars

\* C10 witness: a message with an upper-case key and an upper-case "ON"
\* has been handled and raised d0.
C10_Witness ==
  /\ ev = "cmd"
  /\ IsDesiredState(msg)
  /\ \E k \in DOMAIN msg.members :
       /\ msg.members[k].key = <<"D", "0">>
       /\ msg.members[k].value.str = <<"O", "N">>
  /\ gpio["D0"] = HIGH

\* ---------------------------------------------------------------------------
\* C11 — No fatal state: whatever payload arrives (malformed bytes, a
\* document that is not an object, unknown keys, values that are not string
\* tokens) and whatever the transport does, handling finishes and control is
\* back in the main loop; the firmware is never in a crashed state.
C11_NoFatalState ==
  /\ pc # "crashed"
  /\ ev = "cmd" => pc = "loop"

\* ---------------------------------------------------------------------------
\* Longest JSON text a snapshot of the registry can have: the one that
\* reports every channel "off".
MaxSnapshotText == measureJson(SnapshotOf(AllLow))

C12_NoTruncationStep ==
  \A k \in DOMAIN log' :
    log'[k].t = "pub" =>
      /\ log'[k].payload.complete
      /\ log'[k].payload.length = measureJson(SnapshotOf(gpio'))
      /\ log'[k].payload.length <= MaxSnapshotText
      /\ MaxSnapshotText < PayloadBufSize
      /\ ev' # "cmd" => gpio' = gpio

C13_SessionSetupStep ==
  \* a session begins only with a successful attempt, the first as much as
  \* any later one
  /\ (connected' /\ ~connected) => ev' = "connect_ok"
  \* which subscribes to the control topic and then publishes once
  /\ ev' = "connect_ok" =>
       /\ Len(log') = 2
       /\ log'[1] = [t |-> "sub", topic |-> "control"]
       /\ log'[2].t = "pub" /\ log'[2].topic = "state" /\ log'[2].sent
       /\ subscribed' /\ announced'
  \* nothing of an earlier session is kept
  /\ ~connected' => ~subscribed' /\ ~announced'
  \* a message is served only after both
  /\ ev' = "cmd" => subscribed /\ announced

\* C13 — Session setup on every connection: each successful connection
\* attempt, the first and every reconnection, subscribes to the control topic
\* and then runs the state publisher once, both before any inbound message
\* of that session is served; no subscription is taken to survive from an
\* earlier session.
C13_SessionSetup == [][C13_SessionSetupStep]_vars

\* A reconnection, after a session in which a command was served and a
\* failed attempt: the new session has subscribed and published.
C13_Witness ==
  /\ ev = "connect_ok"
  /\ handled
  /\ episode.active
  /\ episode.fails >= 1
  /\ subscribed /\ announced

\* ---------------------------------------------------------------------------
\* The link is down and the firmware is in, or on its way to, reconnect().
Disconnected == ~connected /\ pc \in {"loop", "connecting", "recheck", "service"}

\* A failed attempt is followed by the fixed delay and leaves the firmware
\* about to attempt again, however many attempts have failed before.
C14_RetryStep ==
  ev' = "connect_fail" =>
    /\ log' = <<[t |-> "delay", ms |-> RetryDelayMs]>>
    /\ pc' = "connecting"
    /\ ~connected'

\* C14 — Always eventually reconnect: after a link loss the device keeps
\* retrying, with no retry limit and the same fixed delay after every failed
\* attempt, so that, the broker accepting an attempt in the end, every state
\* in which the link is down is followed by one in which it is up.
C14_AlwaysEventuallyReconnect ==
  /\ [][C14_RetryStep]_vars
  /\ Disconnected ~> connected

\* A reconnection after a link loss and as many failed attempts as the
\* model allows in a row.
C14_Witness ==
  /\ ev = "connect_ok"
  /\ connected
  /\ episode.active
  /\ episode.fails >= 2

\* ---------------------------------------------------------------------------
\* The state of the connection: up; down with reconnect() about to make an
\* attempt; or down otherwise (at boot, or lost and not yet acted upon).
ConnState ==
  IF connected THEN "CONNECTED"
  ELSE IF pc = "connecting" THEN "CONNECTING"
  ELSE "DISCONNECTED"

\* A restart of the device begins a new run, in DISCONNECTED.
C15_Restart == ev' = "power" /\ ConnState' = "DISCONNECTED"

C15_ShapeStep ==
  \/ ConnState' = ConnState
  \/ C15_Restart
  \/ /\ ConnState = "DISCONNECTED" /\ ConnState' = "CONNECTING"
     /\ ev' \in {"enter_reconnect", "reconnect_again"}
  \/ /\ ConnState = "CONNECTING" /\ ConnState' = "CONNECTED"
     /\ ev' = "connect_ok"
  \/ /\ ConnState = "CONNECTED" /\ ConnState' = "DISCONNECTED"
     /\ ev' = "link_lost"

\* Every state of the connection has a way out: an attempt can succeed, a
\* link can drop, and a device whose link is down is on its way to
\* reconnect().
C15_NoTerminal ==
  /\ ConnState = "CONNECTING" => ENABLED ConnectOK
  /\ ConnState = "CONNECTED" => ENABLED (LinkLost \/ FaultRestart)
  /\ ConnState = "DISCONNECTED" =>
       ENABLED (SetupBegin \/ WifiWait \/ SetupFinish \/ EnterReconnect
                \/ ReconnectAgain \/ ClientLoopIdle)

\* C15 — Connection state machine shape: the connection state only moves
\* DISCONNECTED to CONNECTING, CONNECTING to CONNECTED (success) or to
\* another attempt (failure), and CONNECTED to DISCONNECTED (link loss);
\* there is no terminal state and no other transition: CONNECTED is never
\* reached without a successful attempt.
C15_StateMachineShape ==
  /\ [][C15_ShapeStep]_vars
  /\ []C15_NoTerminal

\* The link dropped right after a successful attempt, and reconnect() has
\* gone from CONNECTED through DISCONNECTED back to CONNECTING.
C15_Witness ==
  /\ ev = "reconnect_again"
  /\ ConnState = "CONNECTING"
  /\ episode.active

\* ---------------------------------------------------------------------------
C16_CheckBeforeServiceStep ==
  \* client.loop() runs only from the point after the connection check
  /\ ev' \in {"cmd", "idle"} => pc = "service"
  \* which is reached only by the check finding the link up, directly or
  \* on return from reconnect()
  /\ (pc' = "service" /\ pc # "service") =>
       /\ pc \in {"loop", "recheck"}
       /\ connected
       /\ ev' \in {"loop_connected", "reconnect_return"}
  \* while the link is down no command is handled and, boot initialization
  \* aside, no channel changes: not during an attempt nor the retry delay
  /\ ConnState # "CONNECTED" =>
       /\ ev' # "cmd"
       /\ gpio' # gpio => ev' = "setup_pins"

\* C16 — Liveness check before service: in every iteration of the main loop
\* the connection check (and, if needed, the blocking reconnect) comes
\* before the message-service step, and no command is handled and no
\* channel changes while the device is DISCONNECTED or CONNECTING, the
\* retry delay included.
C16_CheckBeforeService == [][C16_CheckBeforeServiceStep]_vars

\* In the retry delay after a failed attempt, with a channel a command had
\* asserted still as it was when the link dropped.
C16_Witness ==
  /\ ev = "connect_fail"
  /\ handled
  /\ episode.active
  /\ episode.gpio = gpio
  /\ \E p \in Pins : gpio[p] = HIGH

\* ---------------------------------------------------------------------------
\* C17 — Snapshot accuracy: the value published for each channel is that
\* channel's output state at the moment of the publish; the snapshot that
\* follows a command shows the state after all of its pairs were applied,
\* never an earlier or an intermediate one.
C17_SnapshotAccuracy ==
  \A e \in DOMAIN log :
    log[e].t = "pub" =>
      /\ \A i \in 1..pinCount :
           /\ log[e].payload.members[i].key = pinMap[i].name
           /\ log[e].payload.members[i].value =
                (IF digitalRead(gpio, pinMap[i].pin) = HIGH THEN on ELSE off)
      /\ \A w \in DOMAIN log : log[w].t = "write" => w < e

\* A command changed two channels and its snapshot, sent after both writes,
\* shows both.
C17_Witness ==
  /\ ev = "cmd"
  /\ Len(log) = 3
  /\ log[1].t = "write" /\ log[2].t = "write" /\ log[1].chan # log[2].chan
  /\ log[3].t = "pub" /\ log[3].sent
  /\ gpio["D0"] = HIGH /\ gpio["D8"] = HIGH

\* ---------------------------------------------------------------------------
\* The orders in which n pairs can be written.
Orders(n) == {f \in [1..n -> 1..n] : \A j, k \in 1..n : f[j] = f[k] => j = k}

\* The message with its pairs in the order f.
Reordered(payload, f) ==
  [payload EXCEPT !.members = [k \in DOMAIN payload.members |-> payload.members[f[k]]]]

\* Pairs of the message that name one channel all ask for the same state.
Agreeing(payload) ==
  \A j, k \in DOMAIN payload.members : \A i \in 1..pinCount :
    (Names(payload.members[j].key, i) /\ Names(payload.members[k].key, i)) =>
      AsksOn(payload.members[j].value) = AsksOn(payload.members[k].value)

\* The registry is left as every other order of the handled message's pairs
\* would have left it from the same prior state.
AnyOrderSameState ==
  \A f \in Orders(Len(msg'.members)) :
    callback(gpio, connected, Reordered(msg', f), NoUB(msg')).gpio = gpio'

\* C18 (as stated) — Order independence: the registry state a desired-state
\* message results in does not depend on the order of its pairs; every
\* permutation of the same pairs gives the same final state.
C18_OrderIndependent ==
  [][(ev' = "cmd" /\ IsDesiredState(msg')) => AnyOrderSameState]_vars

\* C18 (amended) — Order independence holds for a message in which no two
\* pairs name the same channel with different requested states: every
\* permutation of its pairs gives the same final state.
C18_OrderIndependentAgreeing ==
  [][(ev' = "cmd" /\ IsDesiredState(msg') /\ Agreeing(msg')) => AnyOrderSameState]_vars

\* A message of two pairs for two different channels was handled and raised
\* both.
C18_Witness ==
  /\ ev = "cmd"
  /\ IsDesiredState(msg)
  /\ Agreeing(msg)
  /\ Len(msg.members) = 2
  /\ Names(msg.members[1].key, 1) /\ Names(msg.members[2].key, 9)
  /\ gpio["D0"] = HIGH /\ gpio["D8"] = HIGH

\* ---------------------------------------------------------------------------
\* Steps of the connection and of publishing: a link loss, noticing it,
\* an attempt that fails (with its delay) or succeeds (with its subscribe
\* and publish), the return to the loop, an idle client.loop(), the wait for
\* WiFi and the publish at the end of setup().
ConnectionSteps ==
  {"link_lost", "enter_reconnect", "reconnect_again", "connect_fail", "connect_ok",
   "reconnect_return", "loop_connected", "idle", "wifi_wait", "setup"}

C19_FrameStep ==
  \* a channel changes only at boot (the restart of the chip and setupPins)
  \* or in handling a command that decoded
  /\ gpio' # gpio =>
       \/ ev' \in {"power", "setup_pins"}
       \/ ev' = "cmd" /\ msg'.wellFormed
  \* and a pin is written only there
  /\ (\E e \in DOMAIN log' : log'[e].t = "write") => (ev' = "cmd" /\ msg'.wellFormed)
  /\ ev' \in ConnectionSteps => gpio' = gpio

\* C19 — Channel state is changed only by boot initialization and by the
\* handling of a successfully decoded command; no disconnect, failed or
\* successful connection attempt, subscribe, retry delay or snapshot publish
\* changes any channel's state.
C19_ChannelFrame == [][C19_FrameStep]_vars

\* A session was set up anew, after a failed attempt, with channels d0 and
\* d8 still asserted as a command had left them before the link dropped.
C19_Witness ==
  /\ ev = "connect_ok"
  /\ handled
  /\ episode.active
  /\ episode.fails >= 1
  /\ episode.pubs = 1
  /\ episode.gpio = gpio
  /\ gpio["D0"] = HIGH /\ gpio["D8"] = HIGH

\* ---------------------------------------------------------------------------
\* The level a pair asks for.
Requested(pair) == IF AsksOn(pair.value) THEN HIGH ELSE LOW

\* The pin writes a step made for channel i, in the order they were made.
WritesTo(events, i) == SelectSeq(events, LAMBDA e : e.t = "write" /\ e.chan = i)

\* C20 — Last pair wins: when several pairs of one decoded desired-state
\* message have keys that match the same channel (keys that differ only in
\* letter case, say), the pairs are applied in document order, each writing
\* what it asks, and the channel ends in the state the last of them asks.
C20_LastPairWins ==
  (ev = "cmd" /\ IsDesiredState(msg)) =>
    \A i \in 1..pinCount :
      LET S == PairsNaming(msg, i)
          W == WritesTo(log, i)
      IN  Cardinality(S) >= 2 =>
            /\ Len(W) = Cardinality(S)
            /\ \A a \in DOMAIN W :
                 /\ W[a].pair \in S
                 /\ W[a].level = Requested(msg.members[W[a].pair])
                 /\ \A b \in DOMAIN W : a < b => W[a].pair < W[b].pair
            /\ digitalRead(gpio, pinMap[i].pin) = Requested(msg.members[Last(S)])

\* A message whose two keys differ in letter case only, both naming d0 and
\* asking for different states, was handled; d0 is as the second asks.
C20_Witness ==
  /\ ev = "cmd"
  /\ IsDesiredState(msg)
  /\ Len(msg.members) = 2
  /\ msg.members[1].key # msg.members[2].key
  /\ PairsNaming(msg, 1) = {1, 2}
  /\ Requested(msg.members[1]) = LOW
  /\ Requested(msg.members[2]) = HIGH
  /\ gpio["D0"] = HIGH

====
